---- MODULE Spec2Model ----
(***************************************************************************)
(* State-machine model of the Kirchhoff-Love thin plate integrand          *)
(* (src/Linear/KirchhoffLovePlate.C): the element kernel                   *)
(* KirchhoffLovePlate and the norm evaluator KirchhoffLovePlateNorm.       *)
(*                                                                         *)
(* Numbers: all reals of the code are modelled by integers drawn from      *)
(* small sets.  The thickness is counted in units of its constructor value *)
(* (0.1), and the bending factor thickness^3/12 in units of 0.1^3/12.      *)
(* Vectors are sequences, matrices are sequences of rows.  C++ indices are *)
(* 0-based; sequences are 1-based, so slot i of a std::vector is entry i+1 *)
(* of the sequence that models it.                                         *)
(***************************************************************************)
EXTENDS Integers, Sequences, FiniteSets, TLC

VARIABLES
  nsd,        \* number of space dimensions (constructor argument)
  m_mode,     \* current solution mode
  eK, eM, eS, \* 1-based indices of stiffness/mass matrix and load vector, 0 = off
  primsol,    \* primary solution vectors
  material,   \* material pointer: NoMat (NULL), or a material record
  presFld,    \* pressure field pointer: NoFld (NULL), or a table over Points
  locSys,     \* local coordinate system pointer: FALSE (NULL) or TRUE (bound)
  gravity,    \* gravitation constant
  thickness,  \* plate thickness
  presVal,    \* pressure samples for visualization, one per quadrature point
  elMat,      \* the element state handed out by getLocalIntegral: <<>> or <<ElmMats>>
  norm,       \* the norm evaluator and its element accumulator: <<>> or <<record>>
  workers,    \* the parallel phase: <<>> outside it, else the record of its workers
  call,       \* the last operation: its name, arguments and result
  lastMode    \* history: the argument of the most recent setMode, "none" before

vars == <<nsd, m_mode, eK, eM, eS, primsol, material, presFld, locSys, gravity,
          thickness, presVal, elMat, norm, workers, call, lastMode>>

kernelCfg == <<nsd, material, presFld, locSys, gravity, thickness>>
kernelMode == <<m_mode, eK, eM, eS, primsol, lastMode>>

----------------------------------------------------------------------------
(* Bounds of the model *)

MaxNen == 2   \* nodes per element
MaxGP == 1    \* quadrature points per element / size of the sample buffer
MaxAcc == 2   \* accumulate calls on one element state
MaxField == 3 \* largest secondary field index asked for
MaxFields == 2 \* projected solutions per element

----------------------------------------------------------------------------
(* Input domains *)

SolutionMode == {"INIT", "STATIC", "VIBRATION", "STIFF_ONLY", "RHS_ONLY", "RECOVERY"}

Points == {0, 1}

NoMat == [kind |-> "null", rho |-> 0, c |-> 0, cinv |-> 0, ok |-> FALSE]

\* static LinIsotropic defaultMat of printLog
defaultMat == [kind |-> "default", rho |-> 1, c |-> 1, cinv |-> 16, ok |-> TRUE]

\* materials the caller may bind; ok = FALSE is a material whose evaluate fails
CallerMaterials ==
  { [kind |-> "caller", rho |-> r, c |-> 2, cinv |-> 8, ok |-> o] :
      r \in {0, 1}, o \in BOOLEAN }

NoFld == [bound |-> FALSE, p |-> [x \in Points |-> 0]]

PressureFields ==
  { [bound |-> TRUE, p |-> [x \in Points |-> IF x = 0 THEN 0 - 1 ELSE 1]] }

Zeros(n) == [i \in 1..n |-> 0]

ZeroMatrix(n) == [i \in 1..n |-> Zeros(n)]

\* std::make_pair(Vec3(),Vec3())
NoSample == [X |-> 0, p |-> 0]

----------------------------------------------------------------------------
(* The call record *)

\* ret is "ok" (true / a value), "fail" (false) or "crash" (the process ended);
\* ub tells whether the call executed undefined behaviour; out is what it returned
Call(op, arg, ret, ub, out) ==
  [op |-> op, arg |-> arg, ret |-> ret, ub |-> ub, out |-> out]

\* the process is alive: no earlier operation ended it
Alive == call.ret # "crash"

----------------------------------------------------------------------------
(* KirchhoffLovePlate::KirchhoffLovePlate *)

Init ==
  /\ nsd \in {1, 2}
  /\ m_mode = "INIT"
  /\ eK = 0 /\ eM = 0 /\ eS = 0
  /\ primsol = <<>>
  /\ material = NoMat
  /\ presFld = NoFld
  /\ locSys = FALSE
  /\ gravity = 0
  /\ thickness = 1
  /\ presVal = <<>>
  /\ elMat = <<>>
  /\ norm = <<>>
  /\ workers = <<>>
  /\ call = Call("new", <<>>, "ok", FALSE, <<>>)
  /\ lastMode = "none"

----------------------------------------------------------------------------
(* KirchhoffLovePlate::setMode *)

ResetStale(old) == [old EXCEPT !.eK = 0, !.eS = 0]

\* eM = eK = 0; eS = 0;
ResetIndices(old) == [eK |-> 0, eM |-> 0, eS |-> 0]

\* the switch over the mode, applied to the reset indices
ModeIndices(old, mode) ==
  LET z == ResetIndices(old)
  IN  CASE mode = "STATIC"     -> [z EXCEPT !.eK = 1, !.eS = 1]
        [] mode = "VIBRATION"  -> [z EXCEPT !.eK = 1, !.eM = 2]
        [] mode = "STIFF_ONLY" -> [z EXCEPT !.eK = 1]
        [] mode = "RHS_ONLY"   -> [z EXCEPT !.eS = 1]
        [] OTHER               -> z

\* std::vector::resize(n) on a vector of vectors: keeps a prefix, appends empties
ResizeVecs(v, n) == [i \in 1..n |-> IF i <= Len(v) THEN v[i] ELSE <<>>]

\* if (mode == SIM::RECOVERY) primsol.resize(1); else primsol.clear();
ModePrimsol(old, mode) == IF mode = "RECOVERY" THEN ResizeVecs(old, 1) ELSE <<>>

\* The mode is set between integration loops, when no element state is live
\* (see releaseElement).
setMode(mode) ==
  /\ Alive
  /\ elMat = <<>>
  /\ LET ix == ModeIndices([eK |-> eK, eM |-> eM, eS |-> eS], mode)
     IN  /\ m_mode' = mode
         /\ eK' = ix.eK
         /\ eM' = ix.eM
         /\ eS' = ix.eS
  /\ primsol' = ModePrimsol(primsol, mode)
  /\ lastMode' = mode
  /\ call' = Call("setMode", <<mode>>, "ok", FALSE, <<>>)
  /\ UNCHANGED <<workers, kernelCfg, presVal, elMat, norm>>

----------------------------------------------------------------------------
(* KirchhoffLovePlate::getLocalIntegral *)

\* new ElmMats()
NewElmMats == [A |-> <<>>, b |-> <<>>, rhsOnly |-> FALSE, withLHS |-> TRUE,
               nen |-> 0, acc |-> 0]

\* ElmMats::resize(nA,nB): the number of matrices and of vectors
Resize(em, nA, nB) ==
  [em EXCEPT !.A = [i \in 1..nA |-> <<>>], !.b = [i \in 1..nB |-> <<>>]]

\* ElmMats::redim(nen): every matrix nen x nen and every vector nen long, zeroed
Redim(em, nen) ==
  [em EXCEPT !.A = [i \in 1..Len(em.A) |-> ZeroMatrix(nen)],
             !.b = [i \in 1..Len(em.b) |-> Zeros(nen)],
             !.nen = nen]

\* case SIM::RECOVERY, also reached by falling through from case SIM::RHS_ONLY
RecoveryFlags(em) == [em EXCEPT !.rhsOnly = TRUE, !.withLHS = FALSE]

LhsCountSwapped(neumann) == IF neumann THEN 1 ELSE 0

LhsCountAlways(neumann) == 1

\* the matrix count of resize(neumann ? 0 : 1, 1)
LhsCount(neumann) == IF neumann THEN 0 ELSE 1

LocalIntegral(mode, nen, neumann) ==
  LET r == NewElmMats
      sized ==
        CASE mode = "STATIC" ->
               Resize([r EXCEPT !.rhsOnly = neumann, !.withLHS = ~neumann],
                      LhsCount(neumann), 1)
          [] mode = "VIBRATION"  -> Resize(r, 2, 0)
          [] mode = "STIFF_ONLY" -> Resize(r, 1, 0)
          [] mode = "RHS_ONLY"   -> RecoveryFlags(Resize(r, LhsCount(neumann), 1))
          [] mode = "RECOVERY"   -> RecoveryFlags(r)
          [] OTHER               -> r
  IN  Redim(sized, nen)

getLocalIntegral(nen, neumann) ==
  /\ Alive
  /\ elMat' = <<LocalIntegral(m_mode, nen, neumann)>>
  /\ call' = Call("getLocalIntegral", <<nen, neumann>>, "ok", FALSE, <<>>)
  /\ UNCHANGED <<workers, kernelCfg, kernelMode, presVal, norm>>

\* The caller owns the element state and destroys it once the element is
\* assembled, before the next element or the next mode.
releaseElement ==
  /\ Alive
  /\ elMat # <<>>
  /\ elMat' = <<>>
  /\ call' = Call("releaseElement", <<>>, "ok", FALSE, <<>>)
  /\ UNCHANGED <<workers, kernelCfg, kernelMode, presVal, norm>>

----------------------------------------------------------------------------
(* The setters of KirchhoffLovePlate.h, as the driver calls them *)

setGravity(g) ==
  /\ Alive
  /\ gravity' = g
  /\ call' = Call("setGravity", <<g>>, "ok", FALSE, <<>>)
  /\ UNCHANGED <<workers, nsd, material, presFld, locSys, thickness, kernelMode, presVal,
                 elMat, norm>>

setThickness(t) ==
  /\ Alive
  /\ thickness' = t
  /\ call' = Call("setThickness", <<t>>, "ok", FALSE, <<>>)
  /\ UNCHANGED <<workers, nsd, material, presFld, locSys, gravity, kernelMode, presVal,
                 elMat, norm>>

setMaterial(mat) ==
  /\ Alive
  /\ material' = mat
  /\ call' = Call("setMaterial", <<mat>>, "ok", FALSE, <<>>)
  /\ UNCHANGED <<workers, nsd, presFld, locSys, gravity, thickness, kernelMode, presVal,
                 elMat, norm>>

setPressure(pf) ==
  /\ Alive
  /\ presFld' = pf
  /\ call' = Call("setPressure", <<pf>>, "ok", FALSE, <<>>)
  /\ UNCHANGED <<workers, nsd, material, locSys, gravity, thickness, kernelMode, presVal,
                 elMat, norm>>

setLocalSystem ==
  /\ Alive
  /\ locSys' = TRUE
  /\ call' = Call("setLocalSystem", <<>>, "ok", FALSE, <<>>)
  /\ UNCHANGED <<workers, nsd, material, presFld, gravity, thickness, kernelMode, presVal,
                 elMat, norm>>

----------------------------------------------------------------------------
(* KirchhoffLovePlate::printLog *)

\* if (!material) material = &defaultMat;
LogMaterial(mat) == IF mat = NoMat THEN defaultMat ELSE mat

printLog ==
  /\ Alive
  /\ material' = LogMaterial(material)
  /\ call' = Call("printLog", <<>>, "ok", FALSE, <<>>)
  /\ UNCHANGED <<workers, nsd, presFld, locSys, gravity, thickness, kernelMode, presVal,
                 elMat, norm>>

----------------------------------------------------------------------------
(* KirchhoffLovePlate::initIntegration *)

\* std::vector::resize(n,x): keeps the first n entries, appends copies of x
ResizeFill(v, n, x) == [i \in 1..n |-> IF i <= Len(v) THEN v[i] ELSE x]

initIntegration(nGp) ==
  /\ Alive
  /\ presVal' = ResizeFill(presVal, nGp, NoSample)
  /\ call' = Call("initIntegration", <<nGp>>, "ok", FALSE, <<>>)
  /\ UNCHANGED <<workers, kernelCfg, kernelMode, elMat, norm>>

----------------------------------------------------------------------------
(* Dereferencing the material pointer.  A call through a NULL pointer is    *)
(* undefined: the process may end, or the call may run on whatever object   *)
(* the build finds there, modelled as any material.                         *)

AllMaterials == CallerMaterials \cup {defaultMat}

Deref(mat) == IF mat = NoMat THEN AllMaterials ELSE {mat}

----------------------------------------------------------------------------
(* Linear algebra on sequences *)

RECURSIVE SumTo(_, _)
SumTo(f, n) == IF n = 0 THEN 0 ELSE f[n] + SumTo(f, n - 1)

Dot(u, v) == SumTo([i \in 1..Len(u) |-> u[i] * v[i]], Len(u))

\* y = M*x
MatVec(M, x) == [i \in 1..Len(M) |-> Dot(M[i], x)]

Scale(v, a) == [i \in 1..Len(v) |-> v[i] * a]

VecAdd(u, v) == [i \in 1..Len(u) |-> u[i] + v[i]]

VecSub(u, v) == [i \in 1..Len(u) |-> u[i] - v[i]]

Column(M, j) == [i \in 1..Len(M) |-> M[i][j]]

\* B^T * C * B * w for B (nstrc x n) and C (nstrc x nstrc): an n x n matrix
BtCB(B, C, w, n) ==
  [i \in 1..n |-> [j \in 1..n |-> Dot(Column(B, i), MatVec(C, Column(B, j))) * w]]

MatAdd(P, Q) == [i \in 1..Len(P) |-> VecAdd(P[i], Q[i])]

\* N (x) N * a
Outer(N, a) == [i \in 1..Len(N) |-> [j \in 1..Len(N) |-> N[i] * N[j] * a]]

Diag(n, a) == [i \in 1..n |-> [j \in 1..n |-> IF i = j THEN a ELSE 0]]

----------------------------------------------------------------------------
(* KirchhoffLovePlate::getNoFields *)

getNoFields(d, fld) == IF fld < 2 THEN 1 ELSE (d * (d + 1)) \div 2

----------------------------------------------------------------------------
(* KirchhoffLovePlate::formBmatrix.  d2 is the rank-3 array d2NdX2:         *)
(* [n, d2, d3, v] with v[<<i,a,b>>] its entries.                            *)

\* column i of Bmat with the mixed derivative taken once
BcolumnNoFactor(d, d2, i) ==
  IF d = 1 THEN <<d2.v[<<i, 1, 1>>]>>
  ELSE <<d2.v[<<i, 1, 1>>], d2.v[<<i, 2, 2>>], d2.v[<<i, 1, 2>>]>>

\* column i of Bmat
Bcolumn(d, d2, i) ==
  IF d = 1 THEN <<d2.v[<<i, 1, 1>>]>>
  ELSE <<d2.v[<<i, 1, 1>>], d2.v[<<i, 2, 2>>], d2.v[<<i, 1, 2>>] * 2>>

BdimsOK(d, d2) == ~(d2.d2 # d \/ d2.d3 # d)

formBmatrix(d, d2) ==
  LET nstrc == (d * (d + 1)) \div 2
  IN  IF ~BdimsOK(d, d2)
      THEN [ok |-> FALSE, B |-> [r \in 1..nstrc |-> Zeros(d2.n)]]
      ELSE [ok |-> TRUE,
            B  |-> [r \in 1..nstrc |-> [i \in 1..d2.n |-> Bcolumn(d, d2, i)[r]]]]

\* a call of formBmatrix on its own: the verdict and Bmat as the caller sees it
formBmatrixCall(d2) ==
  /\ Alive
  /\ LET r == formBmatrix(nsd, d2)
     IN  call' = Call("formBmatrix", <<d2>>, IF r.ok THEN "ok" ELSE "fail",
                      FALSE, r.B)
  /\ UNCHANGED <<workers, kernelCfg, kernelMode, presVal, elMat, norm>>

----------------------------------------------------------------------------
(* KirchhoffLovePlate::formCmatrix, on the material mat the pointer gives *)

\* thickness*thickness*thickness/12.0, in units of 0.1^3/12
BendingFactor(t) == t * t * t

\* material->evaluate(C,...,invers ? -1 : 1): the plane-stress tensor or its inverse
evaluate(mat, d, invers) ==
  [ok |-> mat.ok,
   C  |-> Diag(getNoFields(d, 2), IF invers THEN mat.cinv ELSE mat.c)]

formCmatrix(mat, d, t, invers) ==
  LET e == evaluate(mat, d, invers)
      n == getNoFields(d, 2)
  IN  IF ~e.ok THEN [ok |-> FALSE, C |-> e.C]
      ELSE [ok |-> TRUE,
            C  |-> [i \in 1..n |-> [j \in 1..n |->
                     IF invers THEN e.C[i][j] \div BendingFactor(t)
                     ELSE e.C[i][j] * BendingFactor(t)]]]

----------------------------------------------------------------------------
(* KirchhoffLovePlate::getPressure and haveLoads *)

getPressure(mat, g, t, pf, X) ==
  LET p == mat.rho * g * t
  IN  IF pf.bound THEN p + pf.p[X] ELSE p

haveLoads(mat, g, pf) ==
  IF pf.bound THEN TRUE
  ELSE IF g # 0 /\ mat # NoMat THEN mat.rho # 0
  ELSE FALSE

----------------------------------------------------------------------------
(* The finite element sample FiniteElement: N, d2NdX2, detJxW, iGP *)

DimPairs == {<<1, 1>>, <<2, 2>>, <<1, 2>>}

\* a second-derivative array of n nodes and d2 x d3 derivative indices
D2Array(n, d2, d3) ==
  [n |-> n, d2 |-> d2, d3 |-> d3,
   v |-> [t \in (1..n) \X (1..d2) \X (1..d3) |->
            t[1] + (t[2] - 1) + (t[3] - 1) + (IF t[2] = 2 /\ t[3] = 2 THEN 1 ELSE 0)]]

D2Arrays == { D2Array(n, dd[1], dd[2]) : n \in 1..MaxNen, dd \in DimPairs }

\* nodal point correspondances: 0-based node numbers of the element
MNPCs == {<<0>>, <<0, 1>>, <<1, 2>>}

FESamples(n, dims, weights, gps) ==
  { [N |-> [i \in 1..n |-> i], d2NdX2 |-> D2Array(n, dd[1], dd[2]),
     detJxW |-> w, iGP |-> g] : dd \in dims, w \in weights, g \in gps }

----------------------------------------------------------------------------
(* KirchhoffLovePlate::formMassMatrix and formBodyForce.  The element       *)
(* matrix or vector they write is slot idx of the sequence slots; a slot    *)
(* that does not exist is an out-of-range operator[] of the caller.         *)

formMassMatrix(EM, N, rho, detJW) ==
  IF rho # 0 THEN MatAdd(EM, Outer(N, rho * detJW)) ELSE EM

BodyForceNoWeight(ES, pv, N, iP, X, detJW, p) ==
  IF p # 0
  THEN [ES |-> VecAdd(ES, Scale(N, p)),
        pv |-> IF iP < Len(pv) THEN [pv EXCEPT ![iP + 1] = [X |-> X, p |-> p]]
               ELSE pv]
  ELSE [ES |-> ES, pv |-> pv]

BodyForceAlways(ES, pv, N, iP, X, detJW, p) ==
  [ES |-> VecAdd(ES, Scale(N, p * detJW)),
   pv |-> IF iP < Len(pv) THEN [pv EXCEPT ![iP + 1] = [X |-> X, p |-> p]]
          ELSE pv]

\* the sample is stored only into an entry that holds none yet
BodyForceKeepsFirst(ES, pv, N, iP, X, detJW, p) ==
  IF p # 0
  THEN [ES |-> VecAdd(ES, Scale(N, p * detJW)),
        pv |-> IF iP < Len(pv) /\ pv[iP + 1] = NoSample
               THEN [pv EXCEPT ![iP + 1] = [X |-> X, p |-> p]]
               ELSE pv]
  ELSE [ES |-> ES, pv |-> pv]

\* p is the value of getPressure(X); ES the load vector, pv the sample buffer
formBodyForce(ES, pv, N, iP, X, detJW, p) ==
  IF p # 0
  THEN [ES |-> VecAdd(ES, Scale(N, p * detJW)),
        pv |-> IF iP < Len(pv) THEN [pv EXCEPT ![iP + 1] = [X |-> X, p |-> p]]
               ELSE pv]
  ELSE [ES |-> ES, pv |-> pv]

----------------------------------------------------------------------------
(* KirchhoffLovePlate::evalInt, one quadrature point.  st carries the       *)
(* element state em, the sample buffer pv, the verdict ret ("run" until a   *)
(* return), and ub: whether undefined behaviour was executed.  mat is what  *)
(* the material pointer gives (Deref).                                      *)

StiffStep(st, fe, X, mat) ==
  IF eK = 0 THEN st
  ELSE
    LET Bm == formBmatrix(nsd, fe.d2NdX2)
        Cm == formCmatrix(mat, nsd, thickness, FALSE)
    IN  IF ~Bm.ok THEN [st EXCEPT !.ret = "fail"]
        ELSE IF ~Cm.ok THEN [st EXCEPT !.ret = "fail", !.ub = @ \/ material = NoMat]
        ELSE IF eK > Len(st.em.A) THEN [st EXCEPT !.ub = TRUE]
        ELSE [st EXCEPT
                !.em.A[eK] = MatAdd(@, BtCB(Bm.B, Cm.C, fe.detJxW, fe.d2NdX2.n)),
                !.ub = @ \/ material = NoMat]

MassStep(st, fe, X, mat) ==
  IF st.ret = "fail" \/ eM = 0 THEN st
  ELSE IF eM > Len(st.em.A) THEN [st EXCEPT !.ub = TRUE]
  ELSE [st EXCEPT
          !.em.A[eM] = formMassMatrix(@, fe.N, mat.rho * thickness, fe.detJxW),
          !.ub = @ \/ material = NoMat]

\* the load step taken whatever the stiffness step returned
LoadStepAfterFailure(st, fe, X, mat) ==
  IF eS = 0 \/ eS > Len(st.em.b) THEN st
  ELSE LET r == formBodyForce(st.em.b[eS], st.pv, fe.N, fe.iGP, X, fe.detJxW,
                              getPressure(mat, gravity, thickness, presFld, X))
       IN  [st EXCEPT !.em.b[eS] = r.ES, !.pv = r.pv]

LoadStep(st, fe, X, mat) ==
  IF st.ret = "fail" \/ eS = 0 THEN st
  ELSE
    LET p == getPressure(mat, gravity, thickness, presFld, X)
    IN  IF eS > Len(st.em.b)
        THEN \* the load vector does not exist: only the sample is modelled
             [st EXCEPT !.ub = TRUE,
                        !.pv = formBodyForce(<<>>, @, <<>>, fe.iGP, X, fe.detJxW, p).pv]
        ELSE LET r == formBodyForce(st.em.b[eS], st.pv, fe.N, fe.iGP, X,
                                    fe.detJxW, p)
             IN  [st EXCEPT !.em.b[eS] = r.ES, !.pv = r.pv,
                            !.ub = @ \/ material = NoMat]

EvalIntRun(em, pv, fe, X, mat) ==
  LET s0 == [em |-> em, pv |-> pv, ret |-> "run", ub |-> FALSE]
      s3 == LoadStep(MassStep(StiffStep(s0, fe, X, mat), fe, X, mat), fe, X, mat)
  IN  IF s3.ret = "fail" THEN s3
      ELSE [s3 EXCEPT !.ret = "ok", !.em.acc = @ + 1]

evalInt(fe, X) ==
  /\ Alive
  /\ Len(elMat) = 1
  /\ elMat[1].acc < MaxAcc
  /\ \E mat \in Deref(material), crash \in BOOLEAN :
       LET r == EvalIntRun(elMat[1], presVal, fe, X, mat)
       IN  /\ crash => r.ub
           /\ IF crash
              THEN /\ call' = Call("evalInt", <<fe, X>>, "crash", TRUE, <<>>)
                   /\ UNCHANGED <<elMat, presVal>>
              ELSE /\ elMat' = <<r.em>>
                   /\ presVal' = r.pv
                   /\ call' = Call("evalInt", <<fe, X>>, r.ret, r.ub, <<>>)
  /\ UNCHANGED <<workers, kernelCfg, kernelMode, norm>>

----------------------------------------------------------------------------
(* evalInt called by two workers at once, each for an element of its own.   *)
(* Either both call the one kernel (shared), whose presVal they then both   *)
(* write, or each calls a kernel instance of its own, configured as this    *)
(* one, with its own presVal (pv[w]).  evalInt takes no lock, so its steps  *)
(* interleave; a worker works on its element alone, and the only object     *)
(* two workers can both reach is the sample buffer.  The assignment         *)
(* presVal[iP] = std::make_pair(X,Vec3(0,0,p)) is not atomic: the point and *)
(* the pressure are stored one after the other.  hist lists the stores in   *)
(* the order they happened.                                                 *)

Workers == 1..2

\* the sample buffer the evalInt of worker w writes
WorkerBuffer(w) == IF workers[1].shared THEN presVal ELSE workers[1].pv[w]

\* its identity: 0 is the buffer of the shared kernel
BufferOf(w) == IF workers[1].shared THEN 0 ELSE w

forkWorkers(shared) ==
  /\ Alive
  /\ workers = <<>>
  /\ elMat = <<>>
  /\ material # NoMat
  /\ eS # 0
  /\ workers' =
       <<[shared |-> shared,
          pv     |-> [w \in Workers |-> presVal],
          w      |-> [w \in Workers |->
                       [pc |-> "idle", em |-> LocalIntegral(m_mode, MaxNen, FALSE),
                        fe |-> <<>>, X |-> 0, p |-> 0]],
          hist   |-> <<>>]>>
  /\ call' = Call("forkWorkers", <<shared>>, "ok", FALSE, <<>>)
  /\ UNCHANGED <<kernelCfg, kernelMode, presVal, elMat, norm>>

\* evalInt of worker w up to the store of the sample: the stiffness and mass
\* steps, p = getPressure(X), ES.add(N,p*detJW) and the test iP < presVal.size()
workerEvalInt(w, fe, X) ==
  /\ Alive
  /\ workers # <<>>
  /\ workers[1].w[w].pc = "idle"
  /\ LET r == EvalIntRun(workers[1].w[w].em, WorkerBuffer(w), fe, X, material)
         p == getPressure(material, gravity, thickness, presFld, X)
         stores == r.ret = "ok" /\ p # 0 /\ fe.iGP < Len(WorkerBuffer(w))
     IN  workers' =
           <<[workers[1] EXCEPT
                !.w[w] = [pc |-> IF stores THEN "storeX" ELSE "done",
                          em |-> r.em, fe |-> <<fe>>, X |-> X, p |-> p]]>>
  /\ call' = Call("workerEvalInt", <<w, fe, X>>, "ok", FALSE, <<>>)
  /\ UNCHANGED <<kernelCfg, kernelMode, presVal, elMat, norm>>

\* the entry formBodyForce assigns for worker w, in the buffer as it is now
StoredEntry(w) ==
  LET me == workers[1].w[w]
      fe == me.fe[1]
  IN  formBodyForce(me.em.b[eS], WorkerBuffer(w), fe.N, fe.iGP, me.X,
                    fe.detJxW, me.p).pv[fe.iGP + 1]

\* the buffers after worker w has put entry e at its quadrature point
PutEntry(w, e) ==
  LET i == workers[1].w[w].fe[1].iGP + 1
  IN  IF workers[1].shared
      THEN [shared |-> [presVal EXCEPT ![i] = e], own |-> workers[1].pv]
      ELSE [shared |-> presVal,
            own |-> [workers[1].pv EXCEPT ![w] = [@ EXCEPT ![i] = e]]]

StoreEvent(w, part) ==
  [w |-> w, part |-> part, buf |-> BufferOf(w),
   idx |-> workers[1].w[w].fe[1].iGP]

\* first half of presVal[iP] = ...: the point
workerStoreX(w) ==
  /\ Alive
  /\ workers # <<>>
  /\ workers[1].w[w].pc = "storeX"
  /\ LET i == workers[1].w[w].fe[1].iGP + 1
         put == PutEntry(w, [WorkerBuffer(w)[i] EXCEPT !.X = StoredEntry(w).X])
     IN  /\ presVal' = put.shared
         /\ workers' = <<[workers[1] EXCEPT
                            !.pv = put.own,
                            !.w[w].pc = "storeP",
                            !.hist = Append(@, StoreEvent(w, "X"))]>>
  /\ call' = Call("workerStoreX", <<w>>, "ok", FALSE, <<>>)
  /\ UNCHANGED <<kernelCfg, kernelMode, elMat, norm>>

\* second half: the pressure
workerStoreP(w) ==
  /\ Alive
  /\ workers # <<>>
  /\ workers[1].w[w].pc = "storeP"
  /\ LET i == workers[1].w[w].fe[1].iGP + 1
         put == PutEntry(w, [WorkerBuffer(w)[i] EXCEPT !.p = StoredEntry(w).p])
     IN  /\ presVal' = put.shared
         /\ workers' = <<[workers[1] EXCEPT
                            !.pv = put.own,
                            !.w[w].pc = "done",
                            !.hist = Append(@, StoreEvent(w, "p"))]>>
  /\ call' = Call("workerStoreP", <<w>>, "ok", FALSE, <<>>)
  /\ UNCHANGED <<kernelCfg, kernelMode, elMat, norm>>

\* the parallel phase ends when both calls have returned
joinWorkers ==
  /\ Alive
  /\ workers # <<>>
  /\ \A w \in Workers : workers[1].w[w].pc = "done"
  /\ workers' = <<>>
  /\ call' = Call("joinWorkers", <<>>, "ok", FALSE, <<>>)
  /\ UNCHANGED <<kernelCfg, kernelMode, presVal, elMat, norm>>

----------------------------------------------------------------------------
(* KirchhoffLovePlate::evalBou *)

evalBou ==
  /\ Alive
  /\ Len(elMat) = 1
  /\ call' = Call("evalBou", <<>>, "fail", FALSE, <<>>)
  /\ UNCHANGED <<workers, kernelCfg, kernelMode, presVal, elMat, norm>>

----------------------------------------------------------------------------
(* The global solution store: the framework writes the solution into        *)
(* primsol.front() once setMode has sized the store.                        *)

Solutions == {<<1, 3>>}

storeSolution(v) ==
  /\ Alive
  /\ Len(primsol) >= 1
  /\ primsol' = [primsol EXCEPT ![1] = v]
  /\ call' = Call("storeSolution", <<v>>, "ok", FALSE, <<>>)
  /\ UNCHANGED <<workers, kernelCfg, m_mode, eK, eM, eS, lastMode, presVal, elMat, norm>>

----------------------------------------------------------------------------
(* utl::gather(MNPC,1,in,out): out[i] = in[MNPC[i]] for the 0-based node    *)
(* numbers MNPC; returns the number of node numbers out of range.           *)

InRange(idx, in) == idx >= 0 /\ idx < Len(in)

gather(MNPC, in) ==
  [ierr |-> Cardinality({i \in 1..Len(MNPC) : ~InRange(MNPC[i], in)}),
   eV   |-> [i \in 1..Len(MNPC) |->
               IF InRange(MNPC[i], in) THEN in[MNPC[i] + 1] ELSE 0]]

----------------------------------------------------------------------------
(* KirchhoffLovePlate::evalSol, the explicit-vector form *)

\* m.transform(locSys->getTmat(X)) for a quarter turn of the local axes
transform(d, m) == IF d = 1 THEN m ELSE <<m[2], m[1], 0 - m[3]>>

SolFailed(ub) == [ret |-> "fail", ub |-> ub, s |-> <<>>]

evalSolVec(eV, d2, X, toLocal, mat) ==
  LET Bm == formBmatrix(nsd, d2)
      Cm == formCmatrix(mat, nsd, thickness, FALSE)
      kappa == MatVec(Bm.B, eV)               \* kappa = B*eV
      m == MatVec(Cm.C, Scale(kappa, 0 - 1))  \* m = -C*kappa
  IN  IF eV = <<>> THEN SolFailed(FALSE)
      ELSE IF Len(eV) # d2.n THEN SolFailed(FALSE)
      ELSE IF ~Bm.ok THEN SolFailed(FALSE)
      ELSE IF ~Cm.ok THEN SolFailed(material = NoMat)
      ELSE [ret |-> "ok", ub |-> material = NoMat,
            s   |-> IF toLocal /\ locSys THEN transform(nsd, m) ELSE m]

\* a call that dereferences NULL may also end the process
Outcome(op, arg, r, crash, out) ==
  IF crash THEN Call(op, arg, "crash", TRUE, <<>>)
  ELSE Call(op, arg, r.ret, r.ub, out)

evalSolV(eV, d2, X, toLocal) ==
  /\ Alive
  /\ \E mat \in Deref(material), crash \in BOOLEAN :
       LET r == evalSolVec(eV, d2, X, toLocal, mat)
       IN  /\ crash => r.ub
           /\ call' = Outcome("evalSolV", <<eV, d2, X, toLocal>>, r, crash, r.s)
  /\ UNCHANGED <<workers, kernelCfg, kernelMode, presVal, elMat, norm>>

----------------------------------------------------------------------------
(* KirchhoffLovePlate::evalSol, the form taking the nodal point             *)
(* correspondance MNPC.  The result tells whether the explicit-vector form  *)
(* was called (delegated), and with which toLocal and eV.                   *)

StoredSolution(ps) == ps # <<>> /\ ps[1] # <<>>

GatherIgnoreErrors(MNPC, ps) ==
  IF StoredSolution(ps) THEN [gather(MNPC, ps[1]) EXCEPT !.ierr = 0]
  ELSE [ierr |-> 0, eV |-> <<>>]

\* if (!primsol.empty() && !primsol.front().empty()) ierr = utl::gather(...)
GatherElement(MNPC, ps) ==
  IF StoredSolution(ps) THEN gather(MNPC, ps[1])
  ELSE [ierr |-> 0, eV |-> <<>>]

evalSolMNPC(MNPC, d2, X, mat) ==
  LET g == GatherElement(MNPC, primsol)
  IN  IF g.ierr # 0
      THEN [ret |-> "fail", ub |-> FALSE, s |-> <<>>, delegated |-> FALSE,
            toLocal |-> FALSE, eV |-> g.eV]
      ELSE LET r == evalSolVec(g.eV, d2, X, TRUE, mat)
           IN  [ret |-> r.ret, ub |-> r.ub, s |-> r.s, delegated |-> TRUE,
                toLocal |-> TRUE, eV |-> g.eV]

evalSol(MNPC, d2, X) ==
  /\ Alive
  /\ \E mat \in Deref(material), crash \in BOOLEAN :
       LET r == evalSolMNPC(MNPC, d2, X, mat)
       IN  /\ crash => r.ub
           /\ call' = Outcome("evalSol", <<MNPC, d2, X>>, r, crash,
                              [s |-> r.s, delegated |-> r.delegated,
                               toLocal |-> r.toLocal, eV |-> r.eV])
  /\ UNCHANGED <<workers, kernelCfg, kernelMode, presVal, elMat, norm>>

----------------------------------------------------------------------------
(* The constitutive evaluation as an operation of its own *)

formCmatrixCall(X, invers) ==
  /\ Alive
  /\ \E mat \in Deref(material), crash \in BOOLEAN :
       LET r == formCmatrix(mat, nsd, thickness, invers)
       IN  /\ crash => material = NoMat
           /\ call' = Outcome("formCmatrix", <<X, invers>>,
                              [ret |-> IF r.ok THEN "ok" ELSE "fail",
                               ub  |-> material = NoMat], crash, r.C)
  /\ UNCHANGED <<workers, kernelCfg, kernelMode, presVal, elMat, norm>>

----------------------------------------------------------------------------
(* KirchhoffLovePlate::getField2Name.  "return NULL" builds a std::string   *)
(* from a null pointer, which is undefined: the library throws              *)
(* std::logic_error, or the process ends.                                   *)

FieldLabels == <<"m_xx", "m_yy", "m_xy">>

\* the possible results for field index i (0-based), without prefix
Field2Name(d, i) ==
  IF i >= 3 THEN {[ret |-> "throw", ub |-> TRUE, name |-> ""],
                  [ret |-> "crash", ub |-> TRUE, name |-> ""]}
  ELSE {[ret |-> "ok", ub |-> FALSE, name |-> FieldLabels[i + 1]]}

getField2Name(i) ==
  /\ Alive
  /\ \E r \in Field2Name(nsd, i) :
       call' = Call("getField2Name", <<i>>, r.ret, r.ub, r.name)
  /\ UNCHANGED <<workers, kernelCfg, kernelMode, presVal, elMat, norm>>

----------------------------------------------------------------------------
(* KirchhoffLovePlate::getNormIntegrand and the KirchhoffLovePlateNorm      *)
(* constructor.  asol is "none" (no AnaSol), "noStress" (an AnaSol whose    *)
(* getStressSol() is NULL) or "stress".  The evaluator is kept with the     *)
(* element accumulator ElmNorm it integrates into: psol are the projected   *)
(* solutions, vec the element displacements, val the slots.                 *)

NewNorm(asol, d) ==
  [anasol |-> asol = "stress", nrcmp |-> getNoFields(d, 2), live |-> FALSE,
   psol |-> <<>>, vec |-> <<>>, val |-> <<>>, acc |-> 0, fin |-> FALSE]

getNormIntegrand(asol) ==
  /\ Alive
  /\ norm' = <<NewNorm(asol, nsd)>>
  /\ call' = Call("getNormIntegrand", <<asol>>, "ok", FALSE, <<>>)
  /\ UNCHANGED <<workers, kernelCfg, kernelMode, presVal, elMat>>

----------------------------------------------------------------------------
(* KirchhoffLovePlateNorm::getNoFields, for the groups 1, 2, ... *)

NormNoFields(anasol, group) ==
  IF group = 1 THEN (IF anasol THEN 4 ELSE 2)
  ELSE (IF anasol THEN 6 ELSE 4)

normGetNoFields(group) ==
  /\ Alive
  /\ norm # <<>>
  /\ call' = Call("normGetNoFields", <<group>>, "ok", FALSE,
                  NormNoFields(norm[1].anasol, group))
  /\ UNCHANGED <<workers, kernelCfg, kernelMode, presVal, elMat, norm>>

----------------------------------------------------------------------------
(* The element accumulator the framework hands to the norm evaluator: one   *)
(* slot per norm of group 1 and of one further group per projected          *)
(* solution, all zero; the projected solutions psol hold nrcmp values per   *)
(* node, an empty one stands for a projection that was not computed.        *)

ProjVec(n, nrcmp) == [k \in 1..(n * nrcmp) |-> 1 + (k % 2)]

ProjSets(n, nrcmp, maxf) ==
  UNION { [1..f -> {<<>>, ProjVec(n, nrcmp)}] : f \in 0..maxf }

NormSize(anasol, nf) == NormNoFields(anasol, 1) + nf * NormNoFields(anasol, 2)

initElementNorm(psol, vec) ==
  /\ Alive
  /\ norm # <<>>
  /\ norm' = <<[norm[1] EXCEPT !.live = TRUE, !.psol = psol, !.vec = vec,
                               !.val = Zeros(NormSize(norm[1].anasol, Len(psol))),
                               !.acc = 0, !.fin = FALSE]>>
  /\ call' = Call("initElementNorm", <<psol, vec>>, "ok", FALSE, <<>>)
  /\ UNCHANGED <<workers, kernelCfg, kernelMode, presVal, elMat>>

----------------------------------------------------------------------------
(* KirchhoffLovePlateNorm::evalInt.  ac carries the slots val, the running  *)
(* index ip (0-based), the set of slots written (touched), the slot where   *)
(* the block of each projected solution began (starts, -1 if none) and ub:  *)
(* whether a slot outside the accumulator was written.                      *)

\* (*anasol)(X): the analytical stress resultants at X
AnaStress(X, n) == [j \in 1..n |-> X + j]

\* vec.dot(N,j,nrcmp): sum over the nodes k of vec[j+k*nrcmp]*N[k], 0-based
DotStride(v, N, j, nrcmp) ==
  SumTo([k \in 1..Len(N) |-> v[j + (k - 1) * nrcmp + 1] * N[k]], Len(N))

\* pnorm[ip] += x
AddAt(ac, x) ==
  IF ac.ip < Len(ac.val)
  THEN [ac EXCEPT !.val[ac.ip + 1] = @ + x, !.touched = @ \cup {ac.ip}]
  ELSE [ac EXCEPT !.ub = TRUE]

\* pnorm[ip++] += x
AddNext(ac, x) == [AddAt(ac, x) EXCEPT !.ip = @ + 1]

\* the energy product a(u,u) = u.dot(Cinv*u)*detJxW
Energy(Cinv, u, w) == Dot(u, MatVec(Cinv, u)) * w

ProjBlockWritesIndex(ac, k, pk, anasol, nrcmp, Cinv, mh, m, fe) ==
  IF pk = <<>> THEN [ac EXCEPT !.starts = Append(@, 0 - 1)]
  ELSE
    LET mr == [j \in 1..Len(mh) |->
                 IF j <= nrcmp THEN DotStride(pk, fe.N, j - 1, nrcmp) ELSE 0]
        er == VecSub(mr, mh)
        a0 == [ac EXCEPT !.starts = Append(@, ac.ip)]
        a1 == AddNext(a0, Energy(Cinv, mr, fe.detJxW))
        a2 == AddNext(a1, Energy(Cinv, er, fe.detJxW))
        a3 == AddNext(a2, Dot(mr, mr) * fe.detJxW)
        a4 == AddNext(a3, Dot(er, er) * fe.detJxW)
    IN  IF anasol
        THEN AddNext(AddNext(a4, Energy(Cinv, VecSub(m, mr), fe.detJxW)), 1)
        ELSE a4

\* the body of the loop over pnorm.psol, for the projected solution pk
ProjBlock(ac, k, pk, anasol, nrcmp, Cinv, mh, m, fe) ==
  IF pk = <<>> THEN [ac EXCEPT !.starts = Append(@, 0 - 1)]
  ELSE
    LET mr == [j \in 1..Len(mh) |->
                 IF j <= nrcmp THEN DotStride(pk, fe.N, j - 1, nrcmp) ELSE 0]
        er == VecSub(mr, mh)
        a0 == [ac EXCEPT !.starts = Append(@, ac.ip)]
        a1 == AddNext(a0, Energy(Cinv, mr, fe.detJxW))   \* a(w^r,w^r)
        a2 == AddNext(a1, Energy(Cinv, er, fe.detJxW))   \* a(w^r-w^h,w^r-w^h)
        a3 == AddNext(a2, Dot(mr, mr) * fe.detJxW)       \* (m^r,m^r)
        a4 == AddNext(a3, Dot(er, er) * fe.detJxW)       \* (m^r-m^h,m^r-m^h)
    IN  IF anasol
        THEN \* a(w-w^r,w-w^r), then room for the effectivity index
             [AddNext(a4, Energy(Cinv, VecSub(m, mr), fe.detJxW)) EXCEPT !.ip = @ + 1]
        ELSE a4

RECURSIVE ProjLoop(_, _, _, _, _, _, _, _, _)
ProjLoop(ac, i, psol, anasol, nrcmp, Cinv, mh, m, fe) ==
  IF i > Len(psol) THEN ac
  ELSE ProjLoop(ProjBlock(ac, i, psol[i], anasol, nrcmp, Cinv, mh, m, fe),
                i + 1, psol, anasol, nrcmp, Cinv, mh, m, fe)

NormFailed(nr, ub) ==
  [ret |-> "fail", ub |-> ub, val |-> nr.val, touched |-> {}, starts |-> <<>>]

NormEvalIntRun(nr, fe, X, mat) ==
  LET Ci == formCmatrix(mat, nsd, thickness, TRUE)
      sol == evalSolVec(nr.vec, fe.d2NdX2, X, FALSE, mat)
      mh == sol.s
      m == AnaStress(X, Len(mh))
      a0 == [val |-> nr.val, ip |-> 0, touched |-> {}, starts |-> <<>>,
             ub |-> material = NoMat]
      a1 == AddNext(a0, Energy(Ci.C, mh, fe.detJxW))              \* a(w^h,w^h)
      a2 == IF haveLoads(material, gravity, presFld)
            THEN AddAt(a1, getPressure(mat, gravity, thickness, presFld, X)
                             * Dot(nr.vec, fe.N) * fe.detJxW)      \* (p,w^h)
            ELSE a1
      a3 == [a2 EXCEPT !.ip = @ + 1]
      a5 == IF nr.anasol
            THEN AddNext(AddNext(a3, Energy(Ci.C, m, fe.detJxW)),  \* a(w,w)
                         Energy(Ci.C, VecSub(m, mh), fe.detJxW))   \* a(w-w^h,w-w^h)
            ELSE a3
      a6 == ProjLoop(a5, 1, nr.psol, nr.anasol, nr.nrcmp, Ci.C, mh, m, fe)
  IN  IF ~Ci.ok THEN NormFailed(nr, material = NoMat)
      ELSE IF sol.ret # "ok" THEN NormFailed(nr, material = NoMat)
      ELSE [ret |-> "ok", ub |-> a6.ub, val |-> a6.val, touched |-> a6.touched,
            starts |-> a6.starts]

normEvalInt(fe, X) ==
  /\ Alive
  /\ norm # <<>>
  /\ norm[1].live /\ ~norm[1].fin
  /\ norm[1].acc < MaxAcc
  /\ \E mat \in Deref(material), crash \in BOOLEAN :
       LET r == NormEvalIntRun(norm[1], fe, X, mat)
       IN  /\ crash => r.ub
           /\ call' = Outcome("normEvalInt", <<fe, X>>, r, crash,
                              [touched |-> r.touched, starts |-> r.starts])
           /\ norm' = IF crash \/ r.ret # "ok" THEN norm
                      ELSE <<[norm[1] EXCEPT !.val = r.val, !.acc = @ + 1]>>
  /\ UNCHANGED <<workers, kernelCfg, kernelMode, presVal, elMat>>

----------------------------------------------------------------------------
(* KirchhoffLovePlateNorm::evalBou *)

normEvalBou ==
  /\ Alive
  /\ norm # <<>>
  /\ norm[1].live
  /\ call' = Call("normEvalBou", <<>>, "fail", FALSE, <<>>)
  /\ UNCHANGED <<workers, kernelCfg, kernelMode, presVal, elMat, norm>>

----------------------------------------------------------------------------
(* KirchhoffLovePlateNorm::finalizeElement.  sqrt(a/b) is kept to two       *)
(* decimals, as the integer 100*sqrt(a/b) rounded down; a/0 is +infinity    *)
(* (-2 here) and 0/0 is not-a-number (-1 here).                             *)

RECURSIVE SqrtFrom(_, _)
SqrtFrom(q, r) == IF (r + 1) * (r + 1) > q THEN r ELSE SqrtFrom(q, r + 1)

\* sqrt(a / b)
SqrtRatio(a, b) ==
  IF b = 0 THEN (IF a = 0 THEN 0 - 1 ELSE 0 - 2)
  ELSE SqrtFrom((a * 10000) \div b, 0)

\* the slots the loop visits: ip = 9; ip < pnorm.size(); ip += 6
EffSlots(size) == {ip \in 9..(size - 1) : (ip - 9) % 6 = 0}

\* pnorm[ip] = sqrt(pnorm[ip-4] / pnorm[3]) for every visited ip
Finalize(anasol, val) ==
  IF ~anasol THEN val
  ELSE [i \in 1..Len(val) |->
          IF (i - 1) \in EffSlots(Len(val))
          THEN SqrtRatio(val[(i - 1) - 4 + 1], val[3 + 1])
          ELSE val[i]]

finalizeElement ==
  /\ Alive
  /\ norm # <<>>
  /\ norm[1].live /\ ~norm[1].fin
  /\ norm' = <<[norm[1] EXCEPT !.val = Finalize(norm[1].anasol, @), !.fin = TRUE]>>
  /\ call' = Call("finalizeElement", <<>>, "ok", FALSE, <<>>)
  /\ UNCHANGED <<workers, kernelCfg, kernelMode, presVal, elMat>>

----------------------------------------------------------------------------
(* Specifications.  Spec is the kernel driven through its mode machine,     *)
(* element allocation, accumulation and stress recovery with the material   *)
(* as the only configuration that varies.  SpecLoad is the accumulation of  *)
(* loads under every load configuration.                                    *)

EVecs == {<<>>, <<1>>, <<1, 3>>}

ElementNen == IF Len(elMat) = 1 THEN elMat[1].nen ELSE 0

goodMat == [kind |-> "caller", rho |-> 1, c |-> 2, cinv |-> 8, ok |-> TRUE]

Next ==
  \/ \E mode \in SolutionMode : setMode(mode)
  \/ \E neumann \in BOOLEAN : getLocalIntegral(MaxNen, neumann)
  \/ releaseElement
  \/ \E mat \in CallerMaterials : (mat.rho = 1 /\ setMaterial(mat))
  \/ \E t \in 1..2 : setThickness(t)
  \/ printLog
  \/ \E nGp \in {0, MaxGP} : initIntegration(nGp)
  \/ \E fe \in FESamples(ElementNen, {<<1, 1>>, <<2, 2>>}, {1}, {0}) : evalInt(fe, 0)
  \/ evalBou
  \/ \E v \in Solutions : storeSolution(v)
  \/ \E d \in 1..2 : evalSol(<<0, 1>>, D2Array(2, d, d), 0)
  \/ \E invers \in BOOLEAN : formCmatrixCall(0, invers)
  \/ \E i \in 0..MaxField : getField2Name(i)

Spec == Init /\ [][Next]_vars

NextRecovery ==
  \/ \E mode \in SolutionMode : setMode(mode)
  \/ \E mat \in CallerMaterials : (mat.rho = 1 /\ setMaterial(mat))
  \/ setLocalSystem
  \/ \E v \in Solutions : storeSolution(v)
  \/ \E m \in MNPCs, d2 \in D2Arrays : evalSol(m, d2, 0)
  \/ \E eV \in EVecs, d \in 1..2, toLocal \in BOOLEAN :
       evalSolV(eV, D2Array(2, d, d), 0, toLocal)
  \/ \E n \in 1..MaxNen, d2 \in 1..2, d3 \in 1..2 :
       formBmatrixCall(D2Array(n, d2, d3))

SpecRecovery == Init /\ [][NextRecovery]_vars

\* the driver constructs the kernel with the default dimension; it binds the
\* material, the gravity and the pressure field between elements
\* (SIMLinElKL::initMaterial, initBodyLoad) and integrates an element only
\* with a material bound (the calls without one are those of Spec)
InitLoad == Init /\ nsd = 2

NextLoad ==
  \/ \E mode \in {"STATIC", "RHS_ONLY"} : setMode(mode)
  \/ \E neumann \in BOOLEAN : getLocalIntegral(MaxNen, neumann)
  \/ releaseElement
  \/ \E mat \in CallerMaterials :
       (elMat = <<>> /\ mat.ok = (mat.rho = 1) /\ setMaterial(mat))
  \/ \E g \in {0, 1} : (elMat = <<>> /\ setGravity(g))
  \/ \E pf \in PressureFields \cup {NoFld} : (elMat = <<>> /\ setPressure(pf))
  \/ \E nGp \in 0..MaxGP : initIntegration(nGp)
  \/ \E fe \in FESamples(ElementNen, {<<2, 2>>, <<1, 2>>}, {2}, 0..MaxGP),
        X \in Points : (material # NoMat /\ evalInt(fe, X))

SpecLoad == InitLoad /\ [][NextLoad]_vars

\* the norms are integrated after the solve, on a kernel the driver set up
\* before the first element accumulator is handed out
NormIdle == IF norm = <<>> THEN TRUE ELSE ~norm[1].live

NextNorm ==
  \/ NormIdle /\ setMaterial(goodMat)
  \/ \E g \in {0, 1} : (NormIdle /\ setGravity(g))
  \/ \E asol \in {"none", "noStress", "stress"} : getNormIntegrand(asol)
  \/ \E psol \in ProjSets(MaxNen, getNoFields(nsd, 2), MaxFields) :
       initElementNorm(psol, <<1, 3>>)
  \/ \E d \in 1..2, X \in Points :
       normEvalInt([N |-> <<1, 2>>, d2NdX2 |-> D2Array(2, d, d), detJxW |-> 1,
                    iGP |-> 0], X)
  \/ normEvalBou
  \/ finalizeElement
  \/ \E group \in 1..2 : normGetNoFields(group)

SpecNorm == Init /\ [][NextNorm]_vars

\* the parallel phase: the serial set-up of the kernel, then two workers
SerialPhase == workers = <<>>

NextShared ==
  \/ \E mode \in {"STATIC", "RHS_ONLY"} : (SerialPhase /\ setMode(mode))
  \/ SerialPhase /\ setMaterial(goodMat)
  \/ \E g \in {0, 1} : (SerialPhase /\ setGravity(g))
  \/ \E pf \in PressureFields \cup {NoFld} : (SerialPhase /\ setPressure(pf))
  \/ \E nGp \in 0..MaxGP : (SerialPhase /\ initIntegration(nGp))
  \/ \E shared \in BOOLEAN : forkWorkers(shared)
  \/ \E w \in Workers, fe \in FESamples(MaxNen, {<<2, 2>>}, {1}, 0..MaxGP),
        X \in Points : workerEvalInt(w, fe, X)
  \/ \E w \in Workers : workerStoreX(w)
  \/ \E w \in Workers : workerStoreP(w)
  \/ joinWorkers

SpecShared == InitLoad /\ [][NextShared]_vars

----------------------------------------------------------------------------
(* Claims *)

\* C1: after setMode(STATIC), getLocalIntegral with a pure-load (Neumann)
\* request yields no matrix and exactly one load vector; after
\* setMode(VIBRATION) it yields exactly two matrices and no load vector; after
\* setMode(RECOVERY) it yields no matrix and no load vector and the
\* primary-solution store holds exactly one vector, whatever modes were set
\* before.
C1_SlotAllocation ==
  /\ (call.op = "getLocalIntegral" /\ lastMode = "STATIC" /\ call.arg[2])
       => (Len(elMat[1].A) = 0 /\ Len(elMat[1].b) = 1)
  /\ (call.op = "getLocalIntegral" /\ lastMode = "VIBRATION")
       => (Len(elMat[1].A) = 2 /\ Len(elMat[1].b) = 0)
  /\ (call.op = "getLocalIntegral" /\ lastMode = "RECOVERY")
       => (Len(elMat[1].A) = 0 /\ Len(elMat[1].b) = 0)
  /\ lastMode = "RECOVERY" => Len(primsol) = 1

C1_Witness ==
  /\ call.op = "getLocalIntegral"
  /\ lastMode = "STATIC"
  /\ call.arg[2]
  /\ Len(elMat[1].b) = 1
  /\ presVal # <<>>

\* C2 as stated: in mode RHS_ONLY getLocalIntegral allocates exactly one load
\* vector and no mass matrix, no stiffness matrix for an ordinary request and
\* exactly one for a pure-load (Neumann) request.
C2_AsStated ==
  (call.op = "getLocalIntegral" /\ lastMode = "RHS_ONLY")
    => /\ Len(elMat[1].b) = 1
       /\ eM = 0
       /\ Len(elMat[1].A) = (IF call.arg[2] THEN 1 ELSE 0)

\* C2 as amended: in mode RHS_ONLY getLocalIntegral allocates exactly one load
\* vector and no mass matrix (eM = 0); it allocates exactly one matrix for an
\* ordinary request and no matrix for a pure-load (Neumann) request.
C2_RhsOnlyAllocation ==
  (call.op = "getLocalIntegral" /\ lastMode = "RHS_ONLY")
    => /\ Len(elMat[1].b) = 1
       /\ eM = 0
       /\ Len(elMat[1].A) = (IF call.arg[2] THEN 0 ELSE 1)

C2_Witness ==
  /\ call.op = "getLocalIntegral"
  /\ lastMode = "RHS_ONLY"
  /\ ~call.arg[2]
  /\ Len(elMat[1].A) = 1
  /\ Len(elMat[1].b) = 1

\* the mode table the claims give: <<eK, eM, eS>> per mode
C3_Table(mode) ==
  CASE mode = "STATIC"     -> <<1, 0, 1>>
    [] mode = "VIBRATION"  -> <<1, 2, 0>>
    [] mode = "STIFF_ONLY" -> <<1, 0, 0>>
    [] mode = "RHS_ONLY"   -> <<0, 0, 1>>
    [] OTHER               -> <<0, 0, 0>>

\* C3: the active mode, the slot indices eK, eM, eS and whether the
\* primary-solution store is empty are a function of the argument of the most
\* recent setMode call only (no value of an earlier mode survives), and no
\* operation other than setMode changes the mode or the indices.
C3_ModeFunction ==
  /\ [](lastMode # "none" =>
          /\ m_mode = lastMode
          /\ <<eK, eM, eS>> = C3_Table(lastMode)
          /\ (primsol = <<>>) = (lastMode # "RECOVERY"))
  /\ [][call'.op # "setMode" => UNCHANGED <<m_mode, eK, eM, eS>>]_vars

C3_Witness ==
  /\ lastMode = "STATIC"
  /\ call.op = "evalInt"
  /\ call.ret = "ok"
  /\ material.kind = "default"
  /\ presVal # <<>>
  /\ eM = 0

\* the caller has bound a material (printLog's fallback does not count)
CallerBound == material.kind = "caller"

\* the last operation evaluated the material
EvaluatesMaterial ==
  \/ call.op = "formCmatrix"
  \/ (call.op = "evalInt" /\ eK # 0
        /\ formBmatrix(nsd, call.arg[1].d2NdX2).ok)
  \/ (call.op = "evalSol" /\ StoredSolution(primsol)
        /\ gather(call.arg[1], primsol[1]).ierr = 0
        /\ Len(call.arg[1]) = call.arg[2].n
        /\ formBmatrix(nsd, call.arg[2]).ok)

\* C4: while the caller has bound no material, every operation that evaluates
\* the material (formCmatrix, evalInt with stiffness requested, evalSol)
\* returns an explicit failure and computes with no substituted default,
\* also when printLog was called before.
C4_AsStated ==
  (~CallerBound /\ EvaluatesMaterial) => (call.ret = "fail" /\ ~call.ub)

\* C10: getField2Name returns a label only for indices below nstrc =
\* getNoFields(2): m_xx, m_yy, m_xy in this order; every index at or above
\* nstrc is answered by an error result, neither a label nor an exception.
C10_AsStated ==
  call.op = "getField2Name" =>
    IF call.arg[1] < getNoFields(nsd, 2)
    THEN call.ret = "ok" /\ call.out = <<"m_xx", "m_yy", "m_xy">>[call.arg[1] + 1]
    ELSE call.ret = "fail"

----------------------------------------------------------------------------
(* Claims on the load accumulation, under SpecLoad *)

\* the step is an evalInt on defined behaviour (a material is there, the
\* slots exist) with the load requested
LoadRequested ==
  /\ call'.op = "evalInt"
  /\ ~call'.ub
  /\ eS # 0

\* ... that returned success
LoadStepTaken == LoadRequested /\ call'.ret = "ok"

\* total pressure at the point of the evalInt step
StepPressure == getPressure(material, gravity, thickness, presFld, call'.arg[2])

\* C5: when the load is requested and the total pressure at the point is
\* zero, evalInt leaves the element load vector and every entry of the
\* sample buffer as they were.
C5_ZeroPressureFrame ==
  [][(LoadRequested /\ StepPressure = 0)
       => (elMat'[1].b = elMat[1].b /\ presVal' = presVal)]_vars

C5_Witness ==
  /\ call.op = "evalInt" /\ call.ret = "ok" /\ ~call.ub
  /\ eS # 0
  /\ presFld.bound /\ gravity = 1
  /\ getPressure(material, gravity, thickness, presFld, call.arg[2]) = 0
  /\ call.arg[1].iGP < Len(presVal)
  /\ presVal[call.arg[1].iGP + 1] # NoSample
  /\ elMat[1].b[eS] # Zeros(elMat[1].nen)

\* what evalInt adds to the load vector: weight*p*N
LoadAdded ==
  elMat'[1].b[eS] =
    [i \in 1..Len(elMat[1].b[eS]) |->
       elMat[1].b[eS][i] + call'.arg[1].detJxW * StepPressure * call'.arg[1].N[i]]

StepSample == [X |-> call'.arg[2], p |-> StepPressure]

----------------------------------------------------------------------------
(* Claims on stress recovery, under SpecRecovery *)

\* some node number of the last evalSol call is outside the stored solution
SomeOutOfRange ==
  \E i \in 1..Len(call.arg[1]) :
    call.arg[1][i] < 0 \/ call.arg[1][i] >= Len(primsol[1])

\* the failure cases C7 names
C7_Failures ==
  /\ ~StoredSolution(primsol) => call.ret = "fail"
  /\ (StoredSolution(primsol) /\ SomeOutOfRange) => call.ret = "fail"
  /\ lastMode \notin {"none", "RECOVERY"} => call.ret = "fail"

\* C7 as stated: evalSol with a node-index mapping fails whenever no solution
\* is stored and whenever a mapped node index is out of range, hence after
\* every setMode to a mode other than RECOVERY; only when a solution is
\* stored and all indices are valid does it call the explicit-vector form,
\* and then with the local-frame transform requested.
C7_AsStated ==
  (call.op = "evalSol" /\ call.ret # "crash") =>
    /\ C7_Failures
    /\ call.out.delegated =>
         (StoredSolution(primsol) /\ ~SomeOutOfRange /\ call.out.toLocal)

\* C7 as amended: the same failures; evalSol returns without calling the
\* explicit-vector form only when a solution is stored and a mapped index is
\* out of range.  Otherwise it calls it, always with the local-frame
\* transform requested: with the gathered values when a solution is stored,
\* and with an empty vector, which that form rejects, when none is stored.
\* It succeeds only when a solution is stored and all indices are valid.
C7_EvalSolStore ==
  (call.op = "evalSol" /\ call.ret # "crash") =>
    /\ C7_Failures
    /\ call.out.delegated = ~(StoredSolution(primsol) /\ SomeOutOfRange)
    /\ call.out.delegated => call.out.toLocal
    /\ (call.out.delegated /\ ~StoredSolution(primsol)) => call.out.eV = <<>>
    /\ (call.out.delegated /\ StoredSolution(primsol)) =>
         call.out.eV = [i \in 1..Len(call.arg[1]) |-> primsol[1][call.arg[1][i] + 1]]
    /\ call.ret = "ok" => (StoredSolution(primsol) /\ ~SomeOutOfRange)

C7_Witness ==
  /\ call.op = "evalSol"
  /\ call.ret = "ok"
  /\ ~call.ub
  /\ StoredSolution(primsol)
  /\ call.out.delegated
  /\ locSys
  /\ nsd = 2
  /\ call.out.s # <<0, 0, 0>>

----------------------------------------------------------------------------
(* Claims on the norm evaluator, under SpecNorm *)

\* C8: slot 0 is a(w^h,w^h), slot 1 is the external work and is reserved
\* whether or not loads are present, and the block of the k-th projected
\* solution (k = 0,1,...) starts at slot base + k*blk, with base = 2, blk = 4
\* without and base = 4, blk = 6 with an analytical solution, whether or not
\* other projected solutions are empty.
C8_AsStated ==
  (call.op = "normEvalInt" /\ call.ret = "ok" /\ ~call.ub) =>
    LET base == IF norm[1].anasol THEN 4 ELSE 2
        blk == IF norm[1].anasol THEN 6 ELSE 4
    IN  /\ 0 \in call.out.touched
        /\ 1 \in call.out.touched => haveLoads(material, gravity, presFld)
        /\ \A k \in 1..Len(norm[1].psol) :
             norm[1].psol[k] # <<>> => call.out.starts[k] = base + (k - 1) * blk

\* the effectivity-index slot of the block of projected solution k = 0,1,...
C9_IndexSlots(nf) == {4 + 6 * k + 5 : k \in 0..(nf - 1)}

\* C9: with an analytical solution, evalInt never writes the
\* effectivity-index slot of any block; finalizeElement sets each from the
\* slot four positions before it and slot 3 and changes no other slot.
\* Without an analytical solution finalizeElement changes no slot.
C9_EffectivityIndex ==
  [][/\ (call'.op = "normEvalInt" /\ call'.ret # "crash" /\ norm[1].anasol) =>
          /\ call'.out.touched \cap C9_IndexSlots(Len(norm[1].psol)) = {}
          /\ \A ip \in C9_IndexSlots(Len(norm[1].psol)) :
               norm'[1].val[ip + 1] = norm[1].val[ip + 1]
     /\ (call'.op = "finalizeElement" /\ norm[1].anasol) =>
          \A ip \in 0..(Len(norm[1].val) - 1) :
            norm'[1].val[ip + 1] =
              IF ip \in C9_IndexSlots(Len(norm[1].psol))
              THEN SqrtRatio(norm[1].val[ip - 4 + 1], norm[1].val[3 + 1])
              ELSE norm[1].val[ip + 1]
     /\ (call'.op = "finalizeElement" /\ ~norm[1].anasol) =>
          norm'[1].val = norm[1].val]_vars

C9_Witness ==
  /\ call.op = "finalizeElement"
  /\ norm[1].anasol
  /\ norm[1].acc = 2
  /\ Len(norm[1].psol) = 2
  /\ norm[1].psol[1] # <<>> /\ norm[1].psol[2] # <<>>
  /\ norm[1].val[10] > 0
  /\ norm[1].val[16] > 0

----------------------------------------------------------------------------
(* Claims on the curvature operator, under SpecRecovery *)

\* C11: formBmatrix, for a second-derivative array of n nodes, fails whenever
\* one of the two derivative-index dimensions differs from the dimension d of
\* the kernel, and otherwise returns an nstrc x n matrix, nstrc = d(d+1)/2,
\* whose column i is (d2N_i/dx2) for d = 1 and
\* (d2N_i/dx2, d2N_i/dy2, 2*d2N_i/dxdy) for d = 2, for every node i.
C11_Bmatrix ==
  call.op = "formBmatrix" =>
    LET d2 == call.arg[1]
        B == call.out
    IN  IF d2.d2 # nsd \/ d2.d3 # nsd THEN call.ret = "fail"
        ELSE /\ call.ret = "ok"
             /\ Len(B) = (nsd * (nsd + 1)) \div 2
             /\ \A r \in 1..Len(B) : Len(B[r]) = d2.n
             /\ \A i \in 1..d2.n :
                  /\ B[1][i] = d2.v[<<i, 1, 1>>]
                  /\ nsd = 2 => /\ B[2][i] = d2.v[<<i, 2, 2>>]
                                /\ B[3][i] = 2 * d2.v[<<i, 1, 2>>]

C11_Witness ==
  /\ call.op = "formBmatrix"
  /\ call.ret = "ok"
  /\ nsd = 2
  /\ call.arg[1].n = MaxNen
  /\ Len(call.out) = 3
  /\ call.out[3][MaxNen] = 2 * call.arg[1].v[<<MaxNen, 1, 2>>]
  /\ call.out[3][MaxNen] # call.out[2][MaxNen]

----------------------------------------------------------------------------
(* Claims on two workers, under SpecShared *)

\* the stores that went to the entry worker w stores to
StoresAt(w) ==
  { k \in 1..Len(workers[1].hist) :
      /\ workers[1].hist[k].buf = BufferOf(w)
      /\ workers[1].hist[k].idx = workers[1].w[w].fe[1].iGP }

\* the worker whose store of the given part came last at the entry of w
LastStore(w, part) ==
  LET ks == { k \in StoresAt(w) : workers[1].hist[k].part = part }
  IN  workers[1].hist[CHOOSE k \in ks : \A j \in ks : j <= k].w

\* two workers have stored to one entry of one buffer
ConflictingWrite ==
  \E j, k \in 1..Len(workers[1].hist) :
    /\ workers[1].hist[j].w # workers[1].hist[k].w
    /\ workers[1].hist[j].buf = workers[1].hist[k].buf
    /\ workers[1].hist[j].idx = workers[1].hist[k].idx

\* worker w has returned from an evalInt that stored a sample
HasStored(w) ==
  /\ workers[1].w[w].pc = "done"
  /\ \E k \in 1..Len(workers[1].hist) : workers[1].hist[k].w = w

\* C12: two workers on one kernel, each running evalInt with nonzero pressure
\* for its own element at the same quadrature-point index, both write the
\* same entry of the sample buffer, and what the entry holds in the end is
\* what the later store of each part put there, so it depends on the order
\* of the writes.  With a kernel instance per worker no two workers ever
\* write one entry, and each buffer holds the sample of its own worker.
C12_SharedBufferRace ==
  workers # <<>> =>
    /\ (workers[1].shared /\ HasStored(1) /\ HasStored(2)
          /\ workers[1].w[1].fe[1].iGP = workers[1].w[2].fe[1].iGP)
         => /\ ConflictingWrite
            /\ presVal[workers[1].w[1].fe[1].iGP + 1] =
                 [X |-> workers[1].w[LastStore(1, "X")].X,
                  p |-> workers[1].w[LastStore(1, "p")].p]
    /\ ~workers[1].shared =>
         /\ ~ConflictingWrite
         /\ \A w \in Workers :
              HasStored(w) =>
                workers[1].pv[w][workers[1].w[w].fe[1].iGP + 1] =
                  [X |-> workers[1].w[w].X, p |-> workers[1].w[w].p]

\* both workers stored different samples to one entry of the shared buffer,
\* worker 2 began its store first, and the entry holds the sample of worker 1
C12_Witness ==
  /\ workers # <<>>
  /\ workers[1].shared
  /\ HasStored(1) /\ HasStored(2)
  /\ ConflictingWrite
  /\ workers[1].hist[1].w = 2
  /\ workers[1].w[1].X # workers[1].w[2].X
  /\ workers[1].w[1].p # workers[1].w[2].p
  /\ presVal[workers[1].w[1].fe[1].iGP + 1] =
       [X |-> workers[1].w[1].X, p |-> workers[1].w[1].p]
  /\ presVal[workers[1].w[1].fe[1].iGP + 1] #
       [X |-> workers[1].w[2].X, p |-> workers[1].w[2].p]

----------------------------------------------------------------------------
(* Claims on the slots of the element state, under Spec *)

\* C13: for every mode and every value of the pure-load (Neumann) flag, an
\* element state produced by getLocalIntegral under the current mode has
\* every slot evalInt accesses: eK and eM, when nonzero, are at most the
\* number of allocated matrices, and eS, when nonzero, is at most the number
\* of allocated load vectors.
C13_AsStated ==
  (Len(elMat) = 1 /\ lastMode # "none") =>
    /\ eK # 0 => eK <= Len(elMat[1].A)
    /\ eM # 0 => eM <= Len(elMat[1].A)
    /\ eS # 0 => eS <= Len(elMat[1].b)

----------------------------------------------------------------------------
(* Claims on a failing stiffness step, under SpecLoad *)

\* the evalInt step has the stiffness requested, on a bound material, and
\* formBmatrix or formCmatrix returns failure for its arguments
StiffnessFails ==
  /\ call'.op = "evalInt"
  /\ eK # 0
  /\ material # NoMat
  /\ \/ ~formBmatrix(nsd, call'.arg[1].d2NdX2).ok
     \/ ~formCmatrix(material, nsd, thickness, FALSE).ok

====
